---------------------------- MODULE Spec2Model ----------------------------
(***************************************************************************)
(* rcommit (src/main.rs): parse the command line, collect the staged diff  *)
(* through a shell pipeline, ask the completion backend for a commit       *)
(* message, put the message (or a `git commit -m "..."` line) on the       *)
(* clipboard.                                                              *)
(*                                                                         *)
(* Text is modelled as a sequence of one-character strings, so that the    *)
(* formatting, filtering, splitting and escaping steps are computed and    *)
(* not assumed.                                                            *)
(***************************************************************************)
EXTENDS Integers, Sequences, FiniteSets, TLC

VARIABLES
    pc,               \* position of main: "start", "parsed", "model", "diff", "message", "copied", "exit"
    exit_code,        \* process exit status, -1 while the process lives
    argv,             \* the command line: [help, model, exclude, git]
    staged,           \* the index: names git diff --cached --name-only --diff-filter=ACM reports, in git's order
    hunk,             \* the changed line every staged file carries in its diff
    xpg_echo,         \* whether sh's echo expands \n (dash) or prints it literally (bash)
    model,            \* parse_model_argument's result
    git_diff_output,  \* execute_git_diff_command's Ok value
    commit_message,   \* generate_commit_message's return value
    clipboard,        \* contents of the system clipboard
    steps,            \* history: the calls main has made so far, in order
    faults            \* history: the failures the environment has answered with

vars == <<pc, exit_code, argv, staged, hunk, xpg_echo, model, git_diff_output,
          commit_message, clipboard, steps, faults>>

(***************************************************************************)
(* Bounds.                                                                 *)
(***************************************************************************)
MaxExcludes == 2
MaxFiles == 2

None == "<none>"

(***************************************************************************)
(* Text helpers.                                                           *)
(***************************************************************************)
RECURSIVE Flatten(_)
Flatten(ss) == IF ss = <<>> THEN <<>> ELSE Head(ss) \o Flatten(Tail(ss))

Repeat(c, n) == [i \in 1..n |-> c]

IsPrefix(p, s) == Len(p) <= Len(s) /\ SubSeq(s, 1, Len(p)) = p

Drop(s, n) == SubSeq(s, n + 1, Len(s))

\* Byte value order of the characters that occur in file names.
Ord(c) ==
    CASE c = "+" -> 43
      [] c = "." -> 46
      [] c = "a" -> 97
      [] c = "b" -> 98
      [] c = "x" -> 120

RECURSIVE BytewiseLess(_, _)
BytewiseLess(s, t) ==
    IF s = <<>> THEN t # <<>>
    ELSE IF t = <<>> THEN FALSE
    ELSE IF Head(s) = Head(t) THEN BytewiseLess(Tail(s), Tail(t))
    ELSE Ord(Head(s)) < Ord(Head(t))

(***************************************************************************)
(* The inputs: file names and exclude patterns are drawn from NameUniverse *)
(* (a plain name, names holding the characters . and +, and names that     *)
(* differ from those in one character).                                    *)
(***************************************************************************)
NameUniverse ==
    { <<"a", "b">>, <<"a", ".", "b">>, <<"a", "+", "b">>, <<"a", "x", "b">> }

SeqsUpTo(S, n) == UNION { [1..k -> S] : k \in 0..n }

IsSortedDistinct(fs) == \A i \in 1..(Len(fs) - 1) : BytewiseLess(fs[i], fs[i + 1])

\* git lists the index in bytewise path order, each path once.
StagedLists == { fs \in SeqsUpTo(NameUniverse, MaxFiles) : IsSortedDistinct(fs) }

ExcludeLists == SeqsUpTo(NameUniverse, MaxExcludes)


(***************************************************************************)
(* grep -vE: the extended regular expressions the pipeline can hold.  Over *)
(* NameUniverse a pattern consists of the anchors ^ and $, ordinary        *)
(* characters, the wildcard . and the repetition + after an atom (no name  *)
(* of the universe starts with +, so a repetition without an atom, which   *)
(* POSIX leaves undefined, never occurs).                                  *)
(***************************************************************************)
AtomMatches(atom, c) == atom = "." \/ atom = c

\* TRUE iff re[i..] matches some prefix of s[j..] (the whole rest when re ends in $).
RECURSIVE MatchFrom(_, _, _, _)
MatchFrom(re, i, s, j) ==
    IF i > Len(re) THEN TRUE
    ELSE IF re[i] = "$" /\ i = Len(re) THEN j > Len(s)
    ELSE IF i < Len(re) /\ re[i + 1] = "+"
         THEN \E k \in 1..(Len(s) - j + 1) :
                  /\ \A m \in j..(j + k - 1) : AtomMatches(re[i], s[m])
                  /\ MatchFrom(re, i + 2, s, j + k)
    ELSE /\ j <= Len(s)
         /\ AtomMatches(re[i], s[j])
         /\ MatchFrom(re, i + 1, s, j + 1)

\* grep selects a line when the expression matches somewhere in it.
EreSearch(re, s) ==
    IF re # <<>> /\ Head(re) = "^"
    THEN MatchFrom(re, 2, s, 1)
    ELSE \E j \in 1..(Len(s) + 1) : MatchFrom(re, 1, s, j)

\* grep -vE 're': the lines the expression does not select.
GrepVE(re, lines) == SelectSeq(lines, LAMBDA l : ~EreSearch(re, l))

(***************************************************************************)
(* execute_git_diff_command, lines 83-89: the fold over the excludes.  The *)
(* accumulated command text is kept as the list of its grep -vE stages,    *)
(* each stage being the expression between its quotes.                     *)
(***************************************************************************)
GrepStage(file) == <<"^">> \o file \o <<"$">>

RECURSIVE exclude_pattern(_)
exclude_pattern(excludes) ==
    IF excludes = <<>> THEN <<>>
    ELSE LET acc == exclude_pattern(SubSeq(excludes, 1, Len(excludes) - 1))
             file == excludes[Len(excludes)]
         IN  IF acc = <<>> THEN <<GrepStage(file)>>
             ELSE Append(acc, GrepStage(file))

\* lines piped through the stages, first stage first
RECURSIVE RunStages(_, _)
RunStages(stages, lines) ==
    IF stages = <<>> THEN lines
    ELSE RunStages(Tail(stages), GrepVE(Head(stages), lines))

(***************************************************************************)
(* The body of the while loop of the shell command, lines 92 and 95.       *)
(***************************************************************************)
NL == "\n"
Separator == Repeat("-", 27)
NamePrefix == <<" ", "n", "a", "m", "e", ":">>

\* echo "\n---------------------------\n name:$file"
Echo(file, expand) ==
    LET esc == IF expand THEN <<NL>> ELSE <<"\\", "n">>
    IN  esc \o Separator \o esc \o NamePrefix \o file \o <<NL>>

\* the changed line of a staged file: a removed line, or a context line that
\* reads like the name line of a header
Hunks == { <<"-", "a">>, <<" ", "n", "a", "m", "e", ":", "a", "b">> }

\* git diff --cached "$file": its lines (a header line and the changed line)
GitDiffCached(file, h) == << <<"d", "i", "f", "f", " ">> \o file, h >>

\* the loop body without its sed stage
SedDropped(lines) == lines

\* sed 's/^/+/'
Sed(lines) == [i \in 1..Len(lines) |-> <<"+">> \o lines[i]]

Unlines(lines) == Flatten([i \in 1..Len(lines) |-> lines[i] \o <<NL>>])

LoopBody(file, h, expand) == Echo(file, expand) \o Unlines(Sed(GitDiffCached(file, h)))

\* what sh -c <shell_command> writes to its standard output
ShellStdout(excludes, files, h, expand) ==
    LET stages == exclude_pattern(excludes)
        kept == IF stages = <<>> THEN files ELSE RunStages(stages, files)
    IN  Flatten([i \in 1..Len(kept) |-> LoopBody(kept[i], h, expand)])

(***************************************************************************)
(* Lines 108-112: BufRead::lines, collect into a Result, join.             *)
(***************************************************************************)
\* the lines of a stream: it is cut after each newline, and an unterminated
\* last piece is a line too
SplitLines(stream) ==
    LET n == Len(stream)
        ends == {i \in 1..n : stream[i] = NL}
                    \cup (IF n > 0 /\ stream[n] # NL THEN {n + 1} ELSE {})
        EndOf(k) == CHOOSE e \in ends : Cardinality({x \in ends : x < e}) = k - 1
        StartOf(k) == IF k = 1 THEN 1 ELSE EndOf(k - 1) + 1
    IN  [k \in 1..Cardinality(ends) |-> SubSeq(stream, StartOf(k), EndOf(k) - 1)]

Ok(v) == [ok |-> TRUE, value |-> v]
Err == [ok |-> FALSE, value |-> <<>>]

\* reader.lines(): item k is Err when the read fails there (I/O error or invalid UTF-8)
ReadLines(stream, bad_at) ==
    LET ls == SplitLines(stream)
        n == IF bad_at = 0 THEN Len(ls) ELSE bad_at
    IN  [k \in 1..n |-> IF k = bad_at THEN Err ELSE Ok(ls[k])]

\* a collect that skips the failed reads and keeps the lines read
CollectLossy(results) ==
    LET good == SelectSeq(results, LAMBDA r : r.ok)
    IN  Ok([k \in 1..Len(good) |-> good[k].value])

\* collect::<Result<Vec<String>, _>>(): the first Err, or all the values
Collect(results) ==
    IF \E k \in 1..Len(results) : ~results[k].ok THEN Err
    ELSE Ok([k \in 1..Len(results) |-> results[k].value])

RECURSIVE Join(_, _)
Join(lines, sep) ==
    IF lines = <<>> THEN <<>>
    ELSE IF Len(lines) = 1 THEN lines[1]
    ELSE lines[1] \o sep \o Join(Tail(lines), sep)

\* execute_git_diff_command: spawn_ok = FALSE is a failed spawn (the ? of line 104)
execute_git_diff_command(excludes, files, h, expand, spawn_ok, bad_at) ==
    IF ~spawn_ok THEN Err
    ELSE LET r == Collect(ReadLines(ShellStdout(excludes, files, h, expand), bad_at))
         IN  IF r.ok THEN Ok(Join(r.value, <<NL>>)) ELSE Err


(***************************************************************************)
(* The command line, lines 33-71.                                          *)
(***************************************************************************)
possible_values == {"gpt3.5", "gpt4", "gpt4-turbo"}

\* -m values tried besides leaving -m out (which gives "gpt3.5")
ModelArgs == {"gpt4", "gpt4-turbo", "fast"}

\* a run's command line; with --help or --version nothing else on it matters
CommandLines ==
    { [help |-> TRUE, model |-> None, exclude |-> <<>>, git |-> FALSE] }
    \cup [help : {FALSE}, model : ModelArgs \cup {None}, exclude : ExcludeLists,
          git : BOOLEAN]

\* get_matches without the possible_values constraint of line 59
get_matches_unconstrained(cmd) == IF cmd.help THEN "help" ELSE "matches"

\* clap's get_matches: "help" (printed, exit 0), "usage" (error, exit 2) or "matches"
get_matches(cmd) ==
    IF cmd.help THEN "help"
    ELSE IF cmd.model # None /\ cmd.model \notin possible_values THEN "usage"
    ELSE "matches"

\* matches.value_of("model").unwrap_or("gpt3.5"), with the default_value of line 60
ModelValue(cmd) == IF cmd.model = None THEN "gpt3.5" ELSE cmd.model

\* parse_model_argument, lines 73-80; "unreachable" is the panic of line 78
parse_model_argument(model_arg) ==
    CASE model_arg = "gpt3.5" -> "Gpt35"
      [] model_arg = "gpt4" -> "Gpt4"
      [] model_arg = "gpt4-turbo" -> "Gpt4Turbo"
      [] OTHER -> "unreachable"

(***************************************************************************)
(* The output text, lines 23-28.                                           *)
(***************************************************************************)
\* str::replacen(from, to, 1): the first occurrence only
RECURSIVE ReplaceFirst(_, _, _)
ReplaceFirst(s, from, to) ==
    IF s = <<>> THEN <<>>
    ELSE IF IsPrefix(from, s) THEN to \o Drop(s, Len(from))
    ELSE <<Head(s)>> \o ReplaceFirst(Tail(s), from, to)

\* str::replace: every non-overlapping occurrence of from, left to right
RECURSIVE Replace(_, _, _)
Replace(s, from, to) ==
    IF s = <<>> THEN <<>>
    ELSE IF IsPrefix(from, s) THEN to \o Replace(Drop(s, Len(from)), from, to)
    ELSE <<Head(s)>> \o Replace(Tail(s), from, to)

GitCommitPrefix ==
    <<"g", "i", "t", " ", "c", "o", "m", "m", "i", "t", " ", "-", "m", " ", "\"">>

\* format!("git commit -m \"{}\"", commit_message.replace("\"", "\\\""))
formatter(message) ==
    GitCommitPrefix \o Replace(message, <<"\"">>, <<"\\", "\"">>) \o <<"\"">>

\* the branch of line 24 lost: the formatted text whatever the flag
ClipboardTextAlwaysFormatted(message, git) == formatter(message)

\* the argument of copy_to_clipboard, lines 24-28
ClipboardText(message, git) == IF git THEN formatter(message) ELSE message

\* completions the backend may return
Completions ==
    { <<>>, <<"a", "\"", "b">>, <<"\"", "\"">>, <<"\\", "\"">> }

PriorClipboard == <<"o", "l", "d">>

(***************************************************************************)
(* The run.                                                                *)
(***************************************************************************)
Init ==
    /\ pc = "start"
    /\ exit_code = -1
    /\ argv \in CommandLines
    /\ staged \in StagedLists
    /\ hunk \in Hunks
    /\ xpg_echo \in BOOLEAN
    /\ model = None
    /\ git_diff_output = Err
    /\ commit_message = Err
    /\ clipboard = PriorClipboard
    /\ steps = <<>>
    /\ faults = {}

\* the process ends: 0 from main's Ok or clap's help, 1 from main's Err,
\* 2 from clap's usage error, 101 from a panic
Exit(code) == pc' = "exit" /\ exit_code' = code

\* line 14: initialize_command_line_interface()
InitializeCommandLineInterface ==
    /\ pc = "start"
    /\ LET m == get_matches(argv)
       IN  CASE m = "help" -> Exit(0)
             [] m = "usage" -> Exit(2)
             [] OTHER -> pc' = "parsed" /\ UNCHANGED exit_code
    /\ steps' = Append(steps, "get_matches")
    /\ UNCHANGED <<argv, staged, hunk, xpg_echo, model, git_diff_output,
                   commit_message, clipboard, faults>>

\* lines 15-20: context, model, exclude_patterns
ParseModelArgument ==
    /\ pc = "parsed"
    /\ LET m == parse_model_argument(ModelValue(argv))
       IN  IF m = "unreachable"
           THEN Exit(101) /\ UNCHANGED model
           ELSE pc' = "model" /\ model' = m /\ UNCHANGED exit_code
    /\ UNCHANGED <<argv, staged, hunk, xpg_echo, git_diff_output, commit_message,
                   clipboard, steps, faults>>

\* line 21: execute_git_diff_command(&exclude_patterns)?
\* The environment decides whether sh can be spawned and whether (and at which
\* line) reading its output fails: an I/O error, or bytes that are not UTF-8.
ExecuteGitDiffCommand ==
    /\ pc = "model"
    /\ \E spawn_ok \in BOOLEAN :
       \E bad_at \in 0..(Len(SplitLines(ShellStdout(argv.exclude, staged, hunk, xpg_echo))) + 1) :
          LET r == execute_git_diff_command(argv.exclude, staged, hunk, xpg_echo,
                                            spawn_ok, bad_at)
          IN  /\ git_diff_output' = r
              /\ faults' = faults \cup (IF ~spawn_ok THEN {"spawn"}
                                        ELSE IF bad_at # 0 THEN {"read"} ELSE {})
              /\ IF r.ok THEN pc' = "diff" /\ UNCHANGED exit_code ELSE Exit(1)
    /\ steps' = Append(steps, "sh")
    /\ UNCHANGED <<argv, staged, hunk, xpg_echo, model, commit_message, clipboard>>

\* line 142 with unwrap_or_default() for expect: a failed call yields an empty message
GenerateCommitMessageUnwrapOrDefault ==
    /\ pc = "diff"
    /\ \E r \in {Err} \cup {Ok(c) : c \in Completions} :
          /\ commit_message' = (IF r.ok THEN r ELSE Ok(<<>>))
          /\ faults' = faults \cup (IF r.ok THEN {} ELSE {"invoke"})
    /\ pc' = "message"
    /\ steps' = Append(steps, "invoke")
    /\ UNCHANGED <<exit_code, argv, staged, hunk, xpg_echo, model, git_diff_output,
                   clipboard>>

\* line 142 with one more attempt after a failed call
GenerateCommitMessageRetry ==
    /\ pc = "diff"
    /\ \E r1 \in {Err} \cup {Ok(c) : c \in Completions} :
          IF r1.ok
          THEN /\ commit_message' = r1
               /\ steps' = Append(steps, "invoke")
               /\ pc' = "message"
               /\ UNCHANGED <<exit_code, faults>>
          ELSE \E r2 \in {Err} \cup {Ok(c) : c \in Completions} :
                  /\ commit_message' = r2
                  /\ steps' = steps \o <<"invoke", "invoke">>
                  /\ faults' = faults \cup {"invoke"}
                  /\ IF r2.ok THEN pc' = "message" /\ UNCHANGED exit_code ELSE Exit(101)
    /\ UNCHANGED <<argv, staged, hunk, xpg_echo, model, git_diff_output, clipboard>>

\* line 22: generate_commit_message(...).await; invoke's Err panics at line 142
GenerateCommitMessage ==
    /\ pc = "diff"
    /\ \E r \in {Err} \cup {Ok(c) : c \in Completions} :
          /\ commit_message' = r
          /\ faults' = faults \cup (IF r.ok THEN {} ELSE {"invoke"})
          /\ IF r.ok THEN pc' = "message" /\ UNCHANGED exit_code ELSE Exit(101)
    /\ steps' = Append(steps, "invoke")
    /\ UNCHANGED <<argv, staged, hunk, xpg_echo, model, git_diff_output, clipboard>>

\* lines 25 and 27 with the Result dropped instead of expect
CopyToClipboardResultIgnored ==
    /\ pc = "message"
    /\ \E set_ok \in BOOLEAN :
          IF set_ok
          THEN /\ clipboard' = ClipboardText(commit_message.value, argv.git)
               /\ steps' = Append(steps, "set_contents")
               /\ UNCHANGED faults
          ELSE /\ faults' = faults \cup {"clipboard"}
               /\ UNCHANGED <<clipboard, steps>>
    /\ pc' = "copied"
    /\ UNCHANGED <<exit_code, argv, staged, hunk, xpg_echo, model, git_diff_output,
                   commit_message>>

\* lines 23-28 and copy_to_clipboard, lines 145-149; its Err panics at expect
CopyToClipboard ==
    /\ pc = "message"
    /\ \E set_ok \in BOOLEAN :
          IF set_ok
          THEN /\ clipboard' = ClipboardText(commit_message.value, argv.git)
               /\ steps' = Append(steps, "set_contents")
               /\ pc' = "copied"
               /\ UNCHANGED <<exit_code, faults>>
          ELSE /\ Exit(101)
               /\ faults' = faults \cup {"clipboard"}
               /\ UNCHANGED <<clipboard, steps>>
    /\ UNCHANGED <<argv, staged, hunk, xpg_echo, model, git_diff_output, commit_message>>

\* line 30: Ok(())
ReturnOk ==
    /\ pc = "copied"
    /\ Exit(0)
    /\ UNCHANGED <<argv, staged, hunk, xpg_echo, model, git_diff_output,
                   commit_message, clipboard, steps, faults>>

Next ==
    \/ InitializeCommandLineInterface
    \/ ParseModelArgument
    \/ ExecuteGitDiffCommand
    \/ GenerateCommitMessage
    \/ CopyToClipboard
    \/ ReturnOk

Spec == Init /\ [][Next]_vars

(***************************************************************************)
(* What the properties observe.                                            *)
(***************************************************************************)
Range(seq) == {seq[i] : i \in DOMAIN seq}

Count(seq, x) == Cardinality({i \in DOMAIN seq : seq[i] = x})

\* the name line of a header as echo prints it when it does not expand \n
UnexpandedHead == <<"\\", "n">> \o Separator \o <<"\\", "n">> \o NamePrefix

\* the file a line is the header of, if it is a header: <<name>> or <<>>
HeaderOf(line) ==
    IF IsPrefix(NamePrefix, line) THEN <<Drop(line, Len(NamePrefix))>>
    ELSE IF IsPrefix(UnexpandedHead, line) THEN <<Drop(line, Len(UnexpandedHead))>>
    ELSE <<>>

\* the files a text holds a header for, in the order of the text
Headers(text) ==
    LET ls == SplitLines(text)
    IN  Flatten([k \in 1..Len(ls) |-> HeaderOf(ls[k])])

\* the text holds f's header followed by the lines of f's diff, each behind a +
HasBlock(text, f) ==
    LET ls == SplitLines(text)
        d == GitDiffCached(f, hunk)
    IN  \E k \in 1..Len(ls) :
           /\ HeaderOf(ls[k]) = <<f>>
           /\ k + Len(d) <= Len(ls)
           /\ \A m \in 1..Len(d) : ls[k + m] = <<"+">> \o d[m]

DiffCollected == git_diff_output.ok

Written == "set_contents" \in Range(steps)

BadModel == ~argv.help /\ argv.model # None /\ argv.model \notin possible_values

\* each double quote behind a backslash, every other character as it is
QuotesEscaped(m) ==
    Flatten([i \in 1..Len(m) |-> IF m[i] = "\"" THEN <<"\\", "\"">> ELSE <<m[i]>>])

Pipeline == <<"get_matches", "sh", "invoke", "set_contents">>

(***************************************************************************)
(* Properties.                                                             *)
(***************************************************************************)

\* C1: the collected diff holds no header for a staged file whose name is,
\* character for character, one of the exclude patterns.
C1_ExcludedNameHasNoHeader ==
    DiffCollected =>
        \A f \in Range(staged) :
            f \in Range(argv.exclude) => f \notin Range(Headers(git_diff_output.value))

\* C2: exclusion is an exact full-name match: a staged file whose name equals
\* no exclude pattern is kept, with its header and its diff in the output.
C2_OnlyEqualNamesRemoved ==
    DiffCollected =>
        \A f \in Range(staged) :
            f \notin Range(argv.exclude) => HasBlock(git_diff_output.value, f)

\* C3: with no excludes the headers of the collected diff are exactly the
\* staged files, one header each, in the order git reports them.
C3_NoExcludesOneHeaderPerFileInOrder ==
    (DiffCollected /\ argv.exclude = <<>>) => Headers(git_diff_output.value) = staged

C3_Witness ==
    /\ DiffCollected
    /\ argv.exclude = <<>>
    /\ Len(staged) = 2
    /\ Head(hunk) = " "

\* C4: with -g the clipboard holds git commit -m " + the completion with each
\* double quote behind a backslash and every other character unchanged + ".
C4_GitFlagWrapsAndEscapes ==
    (Written /\ argv.git) =>
        clipboard = GitCommitPrefix \o QuotesEscaped(commit_message.value) \o <<"\"">>

C4_Witness == Written /\ argv.git /\ commit_message.value = <<"\"", "\"">>

\* C5: without -g the clipboard holds the completion text as it was returned.
C5_NoGitFlagPassesThrough ==
    (Written /\ ~argv.git) => clipboard = commit_message.value

C5_Witness == Written /\ ~argv.git /\ commit_message.value = <<"a", "\"", "b">>

\* C6: a -m value outside the accepted ones ends the run with a non-zero exit
\* at argument parsing: parse_model_argument is not reached, sh is not spawned,
\* the backend is not called, the clipboard is not written.
C6_BadModelRejectedAtParse ==
    BadModel =>
        /\ pc \in {"start", "exit"}
        /\ pc = "exit" => exit_code = 2
        /\ model = None
        /\ Range(steps) \subseteq {"get_matches"}
        /\ clipboard = PriorClipboard

C6_Witness == BadModel /\ pc = "exit" /\ exit_code = 2

C8_DiffFailureIsFatal ==
    faults \cap {"spawn", "read"} # {} =>
        /\ pc = "exit"
        /\ exit_code \notin {-1, 0}
        /\ git_diff_output = Err
        /\ "invoke" \notin Range(steps)
        /\ ~Written
        /\ clipboard = PriorClipboard

C8_Witness == "read" \in faults /\ pc = "exit" /\ Len(staged) = 2

\* C9 as stated: the run exits 0 iff the clipboard was written, and every
\* failure ends the run with a non-zero exit code.
C9_ExitZeroIffWritten ==
    /\ pc = "exit" => ((exit_code = 0) <=> Written)
    /\ (faults # {} \/ BadModel) => (pc \in {"start", "exit"} /\ exit_code # 0)

\* C9 amended: the run exits 0 iff the clipboard was written or the command
\* line asked for the help or version text; every failure ends the run with a
\* non-zero exit code and nothing runs after it.
C9_ExitZeroIffWrittenOrHelp ==
    /\ pc = "exit" => ((exit_code = 0) <=> (Written \/ argv.help))
    /\ pc = "exit" /\ argv.help => ~Written
    /\ (faults # {} \/ BadModel) => (pc \in {"start", "exit"} /\ exit_code # 0)
    /\ faults # {} => pc = "exit"

C9_Witness == pc = "exit" /\ exit_code = 0 /\ Written /\ faults = {}

\* C10: the calls happen in the order argument parsing, diff collection,
\* backend call, clipboard write, each at most once; the backend is called
\* only with a collected diff, the clipboard written only with a completion,
\* and a run that main ends with Ok has made each call once.
C10_LinearEachStepOnce ==
    /\ IsPrefix(steps, Pipeline)
    /\ "invoke" \in Range(steps) => DiffCollected
    /\ Written => commit_message.ok
    /\ (pc = "exit" /\ exit_code = 0 /\ ~argv.help) =>
           (steps = Pipeline /\ DiffCollected /\ commit_message.ok)

C10_Witness == pc = "exit" /\ exit_code = 0 /\ steps = Pipeline

=============================================================================
